---- MODULE Spec2Model ----
(***************************************************************************)
(* The KC 311 pipeline: ingest_data.py (Socrata API -> raw_requests) and   *)
(* transform_data.py (raw_requests -> Spark aggregation ->                 *)
(* mart_daily_summary).  One run of one script executes at a time; the two *)
(* scripts share nothing but the two MongoDB collections.                  *)
(*                                                                         *)
(* A collection is a bag of documents (the _id the driver adds to each     *)
(* inserted document is left out: no line of either script reads it).      *)
(* The list `results` is a bag as well: the script uses only its truth     *)
(* value, its length and insert_many over it.                              *)
(*                                                                         *)
(* A call to the API, the driver or the engine either returns or raises;   *)
(* a driver call that raises is taken to have left the collection as it    *)
(* was.  A run that fails unwinds through its except clause and its        *)
(* finally block in the step of the call that raised.                      *)
(***************************************************************************)
EXTENDS Integers, Sequences, FiniteSets, Bags, TLC

\* ------------------------------------------------------------------ bounds
\* stands for SOCRATA_LIMIT (ingest_data.py:14): the most records one fetch returns
MaxFetch == 3
\* the most partitions the engine splits one scan of the raw collection into
MaxPartitions == 2
\* the most positional arguments given to transform_data.py
MaxArgs == 2

\* ------------------------------------------------------- program constants
\* sys.exit(1)
EXIT_FAILURE == 1
\* sys.exit(-1): the process status is the low byte of -1
EXIT_USAGE == 255

\* Python's None, and a null / absent field of a document
None == "None"
\* a well-formed connection string
Uri == "mongodb://atlas"

\* ------------------------------------------------------------------- data
\* open_date_time [day |-> d, hour |-> h] is the string "2024-01-0dT0h:00:00"
Doc(d, h, issue, st) ==
    [open_date_time |-> [day |-> d, hour |-> h], issue_type |-> issue, current_status |-> st]

\* the documents the source API can return: two requests of one day, category
\* and status, one of another day and status, one without issue_type
SourceDoc1 == Doc(1, 8, "Pothole", "Open")
SourceDoc2 == Doc(1, 15, "Pothole", "Open")
SourceDoc3 == Doc(2, 9, "Pothole", "Closed")
NullDoc == Doc(1, 8, None, "Open")
SourceDocs == {SourceDoc1, SourceDoc2, SourceDoc3, NullDoc}

RECURSIVE SumOver(_, _)
SumOver(f, S) ==
    IF S = {} THEN 0
    ELSE LET x == CHOOSE y \in S : TRUE IN f[x] + SumOver(f, S \ {x})

\* every bag of at most n source documents
BagsUpTo(n) ==
    { [d \in {x \in SourceDocs : f[x] > 0} |-> f[d]] :
        f \in {g \in [SourceDocs -> 0..n] : SumOver(g, SourceDocs) <= n} }

Range(s) == {s[i] : i \in DOMAIN s}
BagOfSeq(s) == [d \in Range(s) |-> Cardinality({i \in DOMAIN s : s[i] = d})]

\* ------------------------------------------------ ingest_data.py, helpers
\* `if not MONGO_CONNECTION_STRING`
NotConfigured_never(s) == FALSE
NotConfigured(s) == s = None \/ s = ""

\* `if not results`
FetchedNothing_never(res) == FALSE
FetchedNothing(res) == res = EmptyBag

\* collection.delete_many({})
DeleteMany_noop(coll) == coll
DeleteMany(coll) == EmptyBag

\* collection.insert_many(results)
InsertMany_one(coll, docs) ==
    IF docs = EmptyBag THEN coll
    ELSE coll (+) SetToBag({CHOOSE d \in BagToSet(docs) : TRUE})
InsertMany(coll, docs) == coll (+) docs

\* `if mongo_client: mongo_client.close()`: whether the connection stays open
Finally_leak(client, open) == open
Finally(client, open) == IF client # None THEN FALSE ELSE open

\* --------------------------------------------- transform_data.py, helpers
\* `if len(sys.argv) != 2`
BadArity_lt(args) == Len(args) < 2
BadArity(args) == Len(args) # 2

\* `if not mongo_connection_string`
NoConnectionString(s) == s = None \/ s = ""

\* col("open_date_time").cast("timestamp"): hours since 2024-01-01T00:00:00
CastTimestamp(s) == (s.day - 1) * 24 + s.hour

\* date_trunc("day", ...): midnight of the timestamp's day
DateTruncDay_id(ts) == ts
DateTruncDay(ts) == ts - (ts % 24)

\* df.select(...): the three projected columns (issue_type stays readable
\* for the filter that follows the projection)
Select(d) ==
    [creation_date |-> CastTimestamp(d.open_date_time),
     category |-> d.issue_type,
     status |-> d.current_status,
     issue_type |-> d.issue_type]

\* .filter(col("issue_type").isNotNull())
IsNotNull_all(p) == TRUE
IsNotNull(p) == p.issue_type # None

\* .withColumn("request_date", ...) and the grouping key of .groupBy(...)
GroupKey(p) ==
    [request_date |-> DateTruncDay(p.creation_date), category |-> p.category, status |-> p.status]

\* count("*") over one partition: a map from grouping key to partial count
RECURSIVE PartialCount(_)
PartialCount(part) ==
    IF part = <<>> THEN <<>>
    ELSE LET rest == PartialCount(Tail(part))
             p == Select(Head(part))
         IN IF ~IsNotNull(p) THEN rest
            ELSE LET k == GroupKey(p)
                 IN IF k \in DOMAIN rest
                    THEN [rest EXCEPT ![k] = @ + 1]
                    ELSE [x \in DOMAIN rest \cup {k} |-> IF x = k THEN 1 ELSE rest[x]]

\* the merge of two partial counts after the shuffle
MergeCounts_left(a, b) ==
    [k \in DOMAIN a \cup DOMAIN b |-> IF k \in DOMAIN a THEN a[k] ELSE b[k]]
MergeCounts(a, b) ==
    [k \in DOMAIN a \cup DOMAIN b |->
        (IF k \in DOMAIN a THEN a[k] ELSE 0) + (IF k \in DOMAIN b THEN b[k] ELSE 0)]

RECURSIVE MergeAll(_)
MergeAll(parts) ==
    IF parts = <<>> THEN <<>>
    ELSE MergeCounts(PartialCount(Head(parts)), MergeAll(Tail(parts)))

\* .agg(count("*").alias("number_of_requests")): the rows of mart_df for one
\* execution plan (a sequence of partitions, each a sequence of documents)
MartRows(plan) ==
    LET m == MergeAll(plan)
    IN SetToBag({ [request_date |-> k.request_date, category |-> k.category,
                   status |-> k.status, number_of_requests |-> m[k]] : k \in DOMAIN m })

\* the orders in which a scan can return the documents of a collection
ScanOrders(coll) ==
    {s \in [1..BagCardinality(coll) -> BagToSet(coll)] : BagOfSeq(s) = coll}

\* the ways to cut a scan of n documents into p consecutive partitions
\* (a partition may be empty)
Cuts(n, p) ==
    {c \in [0..p -> 0..n] : c[0] = 0 /\ c[p] = n /\ \A i \in 1..p : c[i-1] <= c[i]}

\* a scan s cut into p partitions
Partitions(s, p) ==
    { [i \in 1..p |-> SubSeq(s, c[i-1] + 1, c[i])] : c \in Cuts(Len(s), p) }

\* the execution plans of one read of the collection: every scan order, cut
\* into every number of partitions, the partial counts merged in plan order
Plans(coll) ==
    UNION { UNION { Partitions(s, p) : p \in 1..MaxPartitions } : s \in ScanOrders(coll) }

\* .mode("overwrite").save(): the collection is dropped, then the rows are written
Save_append(coll, rows) == coll (+) rows
Save(coll, rows) == rows

\* ------------------------------------------------------------------ state
VARIABLES
    raw,        \* the raw_requests collection
    mart,       \* the mart_daily_summary collection
    prog,       \* the script of the current (or last) run
    pc,         \* the position of the run in its script
    status,     \* the exit status, once pc = "exited"
    MONGO_CONNECTION_STRING,  \* ingest_data.py: the environment variable, read at import
    argv,       \* transform_data.py: sys.argv
    results,    \* ingest_data.py: the fetched records
    mongo_client,  \* ingest_data.py: None or the MongoClient
    conn_open,  \* whether the MongoClient's connection is open
    spark,      \* transform_data.py: None or the SparkSession
    spark_active,  \* whether the Spark session is running
    exc,        \* the call of the try block that raised, or None
    ops,        \* the calls the run has made to the API, the store and the engine
    raw0,       \* raw as it was when the run started
    mart0       \* mart as it was when the run started

vars == <<raw, mart, prog, pc, status, MONGO_CONNECTION_STRING, argv, results,
          mongo_client, conn_open, spark, spark_active, exc, ops, raw0, mart0>>

colls == <<raw, mart>>
procvars == <<prog, MONGO_CONNECTION_STRING, argv>>
sparkvars == <<spark, spark_active>>
histvars == <<raw0, mart0>>

Init ==
    /\ raw = EmptyBag
    /\ mart = EmptyBag
    /\ prog = "none"
    /\ pc = "exited"
    /\ status = 0
    /\ MONGO_CONNECTION_STRING = None
    /\ argv = <<>>
    /\ results = EmptyBag
    /\ mongo_client = None
    /\ conn_open = FALSE
    /\ spark = None
    /\ spark_active = FALSE
    /\ exc = None
    /\ ops = <<>>
    /\ raw0 = EmptyBag
    /\ mart0 = EmptyBag

\* a fresh process: nothing of the previous run survives but the collections
\* (the variables of an exited process keep their last values until then)
Fresh(program) ==
    /\ pc = "exited"
    /\ prog' = program
    /\ results' = EmptyBag
    /\ mongo_client' = None
    /\ conn_open' = FALSE
    /\ spark' = None
    /\ spark_active' = FALSE
    /\ exc' = None
    /\ ops' = <<>>
    /\ raw0' = raw
    /\ mart0' = mart
    /\ UNCHANGED colls

\* ------------------------------------------------------- ingest_data.py
\* the process starts; `if not MONGO_CONNECTION_STRING: sys.exit(1)`
IngestStart ==
    /\ Fresh("ingest")
    /\ argv' = <<"ingest_data.py">>
    /\ \E s \in {None, "", Uri} :
        /\ MONGO_CONNECTION_STRING' = s
        /\ IF NotConfigured(s)
           THEN pc' = "exited" /\ status' = EXIT_FAILURE
           ELSE pc' = "fetch" /\ status' = 0

\* the way out of the try block: after `return`, after the last statement
\* (code 0), or after an except clause's sys.exit(1); the finally block runs,
\* then the process ends.  `called` is the call the step made.
IngestExit(code, called) ==
    /\ status' = code
    /\ conn_open' = Finally(mongo_client, conn_open)
    /\ ops' = IF conn_open /\ ~conn_open'
              THEN ops \o <<called, "close">>
              ELSE Append(ops, called)
    /\ pc' = "exited"

\* the call raised: `except ConnectionFailure` and `except Exception`, both
\* sys.exit(1)
IngestRaise(called) ==
    /\ exc' = called
    /\ IngestExit(EXIT_FAILURE, called)

\* `return`, or the end of the try block
IngestReturn(called) ==
    /\ UNCHANGED exc
    /\ IngestExit(0, called)

\* the step goes on to the next statement of the try block
IngestGoto(next, called) ==
    /\ pc' = next
    /\ ops' = Append(ops, called)
    /\ UNCHANGED <<status, exc>>

\* socrata_client.get(...); `if not results: return`
IngestFetch ==
    /\ prog = "ingest" /\ pc = "fetch"
    /\ UNCHANGED <<colls, procvars, mongo_client, sparkvars, histvars>>
    /\ \/ /\ UNCHANGED results
          /\ IngestRaise("get")
       \/ \E res \in BagsUpTo(MaxFetch) :
            /\ results' = res
            /\ IF FetchedNothing(res)
               THEN IngestReturn("get")
               ELSE IngestGoto("connect", "get") /\ UNCHANGED conn_open

\* mongo_client = MongoClient(...)
IngestConnect ==
    /\ prog = "ingest" /\ pc = "connect"
    /\ UNCHANGED <<colls, procvars, results, sparkvars, histvars>>
    /\ \/ /\ UNCHANGED mongo_client
          /\ IngestRaise("MongoClient")
       \/ /\ mongo_client' = "client"
          /\ conn_open' = TRUE
          /\ IngestGoto("ping", "MongoClient")

\* mongo_client.admin.command('ismaster')
IngestPing ==
    /\ prog = "ingest" /\ pc = "ping"
    /\ UNCHANGED <<colls, procvars, results, mongo_client, sparkvars, histvars>>
    /\ \/ IngestRaise("ismaster")
       \/ IngestGoto("delete", "ismaster") /\ UNCHANGED conn_open

\* collection.delete_many({})
IngestDelete ==
    /\ prog = "ingest" /\ pc = "delete"
    /\ UNCHANGED <<mart, procvars, results, mongo_client, sparkvars, histvars>>
    /\ \/ /\ UNCHANGED raw
          /\ IngestRaise("delete_many")
       \/ /\ raw' = DeleteMany(raw)
          /\ IngestGoto("insert", "delete_many")
          /\ UNCHANGED conn_open

\* collection.insert_many(results), the last statement of the try block
IngestInsert ==
    /\ prog = "ingest" /\ pc = "insert"
    /\ UNCHANGED <<mart, procvars, results, mongo_client, sparkvars, histvars>>
    /\ \/ /\ UNCHANGED raw
          /\ IngestRaise("insert_many")
       \/ /\ raw' = InsertMany(raw, results)
          /\ IngestReturn("insert_many")

\* ----------------------------------------------------- transform_data.py
\* the process starts; `if len(sys.argv) != 2: sys.exit(-1)`, then
\* transform_data(sys.argv[1]): `if not mongo_connection_string: sys.exit(1)`
TransformStart ==
    /\ Fresh("transform")
    /\ MONGO_CONNECTION_STRING' = None
    /\ \E n \in 0..MaxArgs : \E a \in [1..n -> {"", Uri}] :
        /\ argv' = <<"transform_data.py">> \o a
        /\ IF BadArity(argv')
           THEN pc' = "exited" /\ status' = EXIT_USAGE
           ELSE IF NoConnectionString(argv'[2])
                THEN pc' = "exited" /\ status' = EXIT_FAILURE
                ELSE pc' = "session" /\ status' = 0

\* the way out of the try block: `finally: if spark: spark.stop()`, then
\* the process ends
TransformExit(code) ==
    /\ status' = code
    /\ spark_active' = IF spark # None THEN FALSE ELSE spark_active
    /\ pc' = "exited"

\* the call raised: `except Exception: sys.exit(1)`
TransformRaise(called) ==
    /\ exc' = called
    /\ TransformExit(EXIT_FAILURE)

\* the end of the try block
TransformReturn ==
    /\ UNCHANGED exc
    /\ TransformExit(0)

TransformGoto(next) ==
    /\ pc' = next
    /\ UNCHANGED <<status, exc>>

\* spark = SparkSession.builder. ... .getOrCreate()
TransformSession ==
    /\ prog = "transform" /\ pc = "session"
    /\ ops' = Append(ops, "getOrCreate")
    /\ UNCHANGED <<colls, procvars, results, mongo_client, conn_open, histvars>>
    /\ \/ /\ UNCHANGED spark
          /\ TransformRaise("getOrCreate")
       \/ /\ spark' = "session"
          /\ spark_active' = TRUE
          /\ TransformGoto("load")

\* df = spark.read.format("mongodb").load(): the connector reaches the store
\* for the schema; the documents are read when the plan runs
TransformLoad ==
    /\ prog = "transform" /\ pc = "load"
    /\ ops' = Append(ops, "load")
    /\ UNCHANGED <<colls, procvars, results, mongo_client, conn_open, spark, histvars>>
    /\ \/ TransformRaise("load")
       \/ TransformGoto("select") /\ UNCHANGED spark_active

\* mart_df = df.select(...).filter(...).withColumn(...).groupBy(...).agg(...)
\* and mart_df.printSchema(): the plan is analysed, nothing is computed yet
TransformSelect ==
    /\ prog = "transform" /\ pc = "select"
    /\ UNCHANGED <<colls, procvars, results, mongo_client, conn_open, spark, ops, histvars>>
    /\ \/ TransformRaise("select")
       \/ TransformGoto("save") /\ UNCHANGED spark_active

\* mart_df.write.format("mongodb").mode("overwrite").save(), the last
\* statement of the try block: the plan runs over the raw collection and the
\* rows replace the mart collection; a failed job leaves the mart as it was
\* or dropped
TransformSave ==
    /\ prog = "transform" /\ pc = "save"
    /\ ops' = Append(ops, "save")
    /\ UNCHANGED <<raw, procvars, results, mongo_client, conn_open, spark, histvars>>
    /\ \/ /\ \E m \in {mart, EmptyBag} : mart' = m
          /\ TransformRaise("save")
       \/ /\ \E plan \in Plans(raw) : mart' = Save(mart, MartRows(plan))
          /\ TransformReturn

Next ==
    \/ IngestStart
    \/ IngestFetch
    \/ IngestConnect
    \/ IngestPing
    \/ IngestDelete
    \/ IngestInsert
    \/ TransformStart
    \/ TransformSession
    \/ TransformLoad
    \/ TransformSelect
    \/ TransformSave

Spec == Init /\ [][Next]_vars

TypeOK ==
    /\ pc \in {"exited", "fetch", "connect", "ping", "delete", "insert",
               "session", "load", "select", "save"}
    /\ prog \in {"none", "ingest", "transform"}
    /\ status \in {0, EXIT_FAILURE, EXIT_USAGE}
    /\ conn_open \in BOOLEAN
    /\ spark_active \in BOOLEAN

\* ----------------------------------------------------------------- claims
IngestDone == prog = "ingest" /\ pc = "exited"
IngestSucceeded == IngestDone /\ status = 0
TransformDone == prog = "transform" /\ pc = "exited"
TransformSucceeded == TransformDone /\ status = 0

\* midnight of the day of an open_date_time, in hours since 2024-01-01T00:00:00
DayOf(s) == (s.day - 1) * 24

\* the (request_date, category, status) tuple a raw document maps to
TupleOf(d) ==
    [request_date |-> DayOf(d.open_date_time), category |-> d.issue_type,
     status |-> d.current_status]
TupleOfRow(r) ==
    [request_date |-> r.request_date, category |-> r.category, status |-> r.status]

\* the documents of a collection that have an issue_type
Categorised(coll) == {d \in BagToSet(coll) : d.issue_type # None}

\* the number of documents of a collection, copies counted, among S
CountIn(coll, S) == SumOver(coll, S \cap BagToSet(coll))

\* the aggregation of a collection, stated without reference to an execution
ExpectedMart(coll) ==
    SetToBag({ [request_date |-> k.request_date, category |-> k.category, status |-> k.status,
                number_of_requests |-> CountIn(coll, {d \in Categorised(coll) : TupleOf(d) = k})] :
               k \in {TupleOf(d) : d \in Categorised(coll)} })

\* a collection without its documents of null issue_type
WithoutNull(coll) == [d \in Categorised(coll) |-> coll[d]]

\* the rows one single-partition run computes for a collection
Aggregate(coll) == MartRows(<< CHOOSE s \in ScanOrders(coll) : TRUE >>)

\* C1 as stated: after every ingestion run that ends with status 0 the raw
\* collection holds exactly the records of that run's fetch.
C1_ExactlyTheFetch == IngestSucceeded => raw = results

\* C1, amended: after an ingestion run that ends with status 0 the raw
\* collection holds exactly the fetched records (same count, same content,
\* nothing of an earlier run, no record twice over) when the fetch returned
\* any, whatever it held before; when the fetch returned none the run also
\* ends with status 0 and the collection is as it was before the run.
C1_ReplaceAll ==
    IngestSucceeded =>
        IF results = EmptyBag
        THEN raw = raw0
        ELSE /\ raw = results
             /\ BagCardinality(raw) = BagCardinality(results)

C1_Witness ==
    /\ IngestSucceeded
    /\ BagCardinality(results) = 3
    /\ raw0 # EmptyBag
    /\ raw0 # results
    /\ \E d \in BagToSet(results) : results[d] = 2

\* C2: after every transform run that ends with status 0 the mart collection
\* is exactly the aggregation of the raw collection as it was when the run
\* started: every computed row is there and no row of an earlier run remains.
C2_MartIsAggregation ==
    TransformSucceeded => mart = ExpectedMart(raw0) /\ raw = raw0

C2_Witness ==
    /\ TransformSucceeded
    /\ mart # EmptyBag
    /\ \E r \in BagToSet(mart0) : ~BagIn(r, mart)

\* C3: the rows of one transform run have pairwise distinct (request_date,
\* category, status) tuples; each number_of_requests is the number of raw
\* records of non-null issue_type that map to the row's tuple, so it is at
\* least 1, and the counts sum to the number of such raw records.
C3_GroupCounts ==
    TransformSucceeded =>
        LET rows == BagToSet(mart) IN
        /\ \A r \in rows : CopiesIn(r, mart) = 1
        /\ \A r1, r2 \in rows : TupleOfRow(r1) = TupleOfRow(r2) => r1 = r2
        /\ \A r \in rows :
            /\ r.number_of_requests =
                 CountIn(raw0, {d \in Categorised(raw0) : TupleOf(d) = TupleOfRow(r)})
            /\ r.number_of_requests >= 1
        /\ SumOver([r \in rows |-> r.number_of_requests], rows) =
             CountIn(raw0, Categorised(raw0))

C3_Witness ==
    /\ TransformSucceeded
    /\ Cardinality(BagToSet(mart)) = 2
    /\ \E r \in BagToSet(mart) : r.number_of_requests = 2

\* C4: a raw record of null issue_type contributes to no summary row: the
\* mart rows are those computed with such records removed and those computed
\* with one more such record added, and no mart row has a null category.
C4_NullExcluded ==
    TransformSucceeded =>
        /\ \A r \in BagToSet(mart) : r.category # None
        /\ mart = Aggregate(WithoutNull(raw0))
        /\ mart = Aggregate(raw0 (+) SetToBag({NullDoc}))

C4_Witness ==
    /\ TransformSucceeded
    /\ BagIn(NullDoc, raw0)
    /\ Categorised(raw0) # {}
    /\ mart # EmptyBag

\* C5: for a fixed raw snapshot every execution of the transform gives the
\* same mart rows: whatever the order the records are scanned in, however
\* the scan is cut into partitions, in whatever order the partial counts are
\* merged, the rows are those the run wrote.
C5_PlanIndependent ==
    TransformSucceeded => \A plan \in Plans(raw0) : MartRows(plan) = mart

C5_Witness ==
    /\ TransformSucceeded
    /\ raw0 = SetToBag({SourceDoc1, SourceDoc2, SourceDoc3})
    /\ \E plan \in Plans(raw0) : Len(plan) = 2 /\ Len(plan[1]) = 1

\* C6: no ingestion run ends with an open store connection, whatever the
\* exit path.
C6_ConnectionClosed == IngestDone => ~conn_open

C6_Witness ==
    /\ IngestDone
    /\ mongo_client # None
    /\ exc = "ismaster"
    /\ status = EXIT_FAILURE

\* the calls of a run to the source API and to the store's data
DataCalls(log) ==
    SelectSeq(log, LAMBDA c : c \in {"get", "ismaster", "delete_many", "insert_many"})

IsPrefix(s, u) == Len(s) <= Len(u) /\ SubSeq(u, 1, Len(s)) = s

C8_MissingConfiguration ==
    (prog = "ingest" /\ (MONGO_CONNECTION_STRING = None \/ MONGO_CONNECTION_STRING = "")) =>
        /\ pc = "exited"
        /\ status # 0
        /\ ops = <<>>
        /\ mongo_client = None
        /\ ~conn_open
        /\ raw = raw0

C8_Witness ==
    /\ IngestDone
    /\ MONGO_CONNECTION_STRING = None
    /\ raw # EmptyBag

\* C9: a transform invocation with zero, or with two or more, positional
\* arguments exits with a non-zero status without creating a Spark session
\* or reaching the store; the raw and mart collections are unchanged.
C9_BadArity ==
    (prog = "transform" /\ Len(argv) - 1 # 1) =>
        /\ pc = "exited"
        /\ status # 0
        /\ ops = <<>>
        /\ spark = None
        /\ ~spark_active
        /\ raw = raw0
        /\ mart = mart0

C9_Witness ==
    /\ TransformDone
    /\ Len(argv) = 3
    /\ argv[2] = Uri
    /\ raw # EmptyBag
    /\ mart # EmptyBag

\* C10: an ingestion run deletes from the raw collection only after a
\* non-empty fetch and a successful liveness check; when the fetch fails,
\* returns no records, or the liveness check fails, the raw collection is as
\* it was before the run, with exit status 1 in the failure cases and 0
\* after an empty fetch.
C10_NoDeleteWithoutData ==
    prog = "ingest" =>
        /\ ("delete_many" \in Range(ops) \/ raw # raw0) =>
              /\ results # EmptyBag
              /\ "ismaster" \in Range(ops)
              /\ exc # "ismaster"
        /\ (pc = "exited" /\ exc \in {"get", "ismaster"}) =>
              raw = raw0 /\ status = EXIT_FAILURE
        /\ (pc = "exited" /\ exc = None /\ "get" \in Range(ops) /\ results = EmptyBag) =>
              raw = raw0 /\ status = 0

C10_Witness ==
    /\ IngestDone
    /\ exc = "ismaster"
    /\ raw0 # EmptyBag
    /\ results # EmptyBag

====
